---- MODULE Spec2Model ----
(***************************************************************************)
(* The phira-mp client (phira-mp-client/src/lib.rs): the RPC facade        *)
(* (Client::rcall and the ten typed calls built on it), the correlation    *)
(* table of oneshot senders (the cb_ cells), the room snapshot (the room)   *)
(* and the dispatcher (process) that the Stream runs on every inbound      *)
(* ServerCommand, in arrival order.                                        *)
(*                                                                         *)
(* A facade call is a process with four positions:                         *)
(*   idle -> sent -> wait -> done        (or panicked, an unwrap of None)  *)
(* "sent" is the point between `self.stream.send(payload).await?` and      *)
(* `*cb.lock().await = Some(tx)`: the command is on the wire and the slot  *)
(* is not installed yet.                                                   *)
(***************************************************************************)
EXTENDS Integers, Sequences, FiniteSets, TLC

\* Bounds of the model.
NCalls == 3
ConcCalls == 2
MaxPush == 1
MaxRoomId == 2

Calls == 1..NCalls
NoCall == 0
RoomIds == 1..MaxRoomId

\* The ten operations that go through rcall, one callback cell each.
Kinds ==
  {"Authorize", "Chat", "CreateRoom", "JoinRoom", "LeaveRoom",
   "SelectChart", "RequestStart", "Ready", "CancelReady", "Played"}

\* phira_mp_common::RoomState, and RoomState::default().
Phases == {"SelectChart", "WaitingForReady", "Playing"}
DefaultPhase == "SelectChart"

\* Option<T>: <<>> is None, <<v>> is Some(v).
NoRoom == <<>>
ClientRoomState(id, state, is_host, is_ready) ==
  [id |-> id, state |-> state, is_host |-> is_host, is_ready |-> is_ready]

\* The snapshots an Authorize result may carry (Option<ClientRoomState>).
AuthRooms ==
  {NoRoom} \cup
  {<<ClientRoomState(i, p, h, h)>> : i \in {MaxRoomId}, p \in {"Playing"}, h \in BOOLEAN}

\* A ServerCommand as process receives it: its variant and its payload.
Event(type, ok, id, state, room, host) ==
  [type |-> type, ok |-> ok, id |-> id, state |-> state, room |-> room,
   host |-> host]
NoEvent == Event("none", FALSE, 0, "", NoRoom, FALSE)

\* The result events of kind k the server can send:
\* Err(String), or Ok with the payload of that kind.
Replies(k) ==
  {Event(k, FALSE, 0, "", NoRoom, FALSE)} \cup
  CASE k = "Authorize" -> {Event(k, TRUE, 0, "", r, FALSE) : r \in AuthRooms}
    [] k = "CreateRoom" -> {Event(k, TRUE, i, "", NoRoom, FALSE) : i \in RoomIds}
    [] k = "JoinRoom" -> {Event(k, TRUE, 0, p, NoRoom, FALSE) : p \in Phases}
    [] OTHER -> {Event(k, TRUE, 0, "", NoRoom, FALSE)}

\* The push events that write the snapshot.
PushTypes == {"ChangeState", "ChangeHost"}
Pushes(t) ==
  IF t = "ChangeState"
    THEN {Event(t, TRUE, 0, p, NoRoom, FALSE) : p \in Phases}
    ELSE {Event(t, TRUE, 0, "", NoRoom, h) : h \in BOOLEAN}

\* What the wire holds of an inbound event before process reads it: its
\* variant.  `for` is the call whose command the event answers (NoCall for a
\* push or an unsolicited result); it is history, the client never reads it.
\* The payload is the server's choice and is drawn when process reads it.
Wire(type, for) == [type |-> type, for |-> for]

\* The argument of a call: JoinRoom { id }; the others carry nothing the
\* client reads again.
CallArgs(k) == IF k = "JoinRoom" THEN RoomIds ELSE {0}

\* tokio::sync::Notify: the stored permit, the futures that wait (oldest
\* first) and the futures notify_one has woken and that have not run yet.
Notify(permit, waiters, woken) ==
  [permit |-> permit, waiters |-> waiters, woken |-> woken]

\* The probes that wait on ping_notify: the heartbeat task, a caller of ping.
Probes == {"hb", "ping"}

\* The three inbound queues.
Queues == {"touch_frames", "judges", "messages"}

VARIABLES
  pc,          \* pc[c]: position of facade call c
  kind,        \* kind[c]: the operation of call c ("none" before it starts)
  arg,         \* arg[c]: the id passed to join_room
  cb,          \* cb[k]: the call whose oneshot sender cell cb_k holds, or NoCall
  chan,        \* chan[c]: the oneshot channel of call c, seen from its receiver
  last,        \* the latest return of a facade call to its caller
  room,        \* State::room
  inb,         \* inbound ServerCommands, sent and not yet processed (Wire)
  dispatcher,  \* "running", or "panicked" once process has panicked
  npush,       \* push and unsolicited events the server has sent
  hb,          \* position of the heartbeat task in its loop
  ping,        \* position of a caller of Client::ping
  ping_notify, \* State::ping_notify
  ping_fail_count, \* Client::ping_fail_count
  delay,       \* State::delay
  missed,      \* heartbeat rounds that timed out since the last acknowledged one
  ponged,      \* the probes whose Ping was followed by a processed Pong
  queue,       \* queue[q]: State::touch_frames, judges, messages
  arrived,     \* arrived[q]: the elements process has read for queue q
  taken        \* taken[q]: the elements drained from queue q, drain after drain

\* The rpc facade, the heartbeat and the telemetry queues share the wire and
\* the dispatcher and nothing else.
heartbeat == <<hb, ping, ping_notify, ping_fail_count, delay, missed, ponged>>
telemetry == <<queue, arrived, taken>>
rpc == <<pc, kind, arg, cb, chan, last, room>>

vars ==
  <<pc, kind, arg, cb, chan, last, room, inb, dispatcher, npush,
    hb, ping, ping_notify, ping_fail_count, delay, missed, ponged,
    queue, arrived, taken>>

\* A oneshot channel: empty, closed (sender dropped unsent), or holding the
\* event sent, with the history of the wire entry it came from.
EmptyChan == [st |-> "empty", ev |-> NoEvent, for |-> NoCall]
ClosedChan == [st |-> "closed", ev |-> NoEvent, for |-> NoCall]
ValueChan(ev, w) == [st |-> "value", ev |-> ev, for |-> w.for]

\* What a call returned: Ok (id: the Uuid create_room returns) or the error.
\* "Invalid" is the error of the argument's try_into, "Transport" the error
\* of stream.send, "Timeout" the Elapsed of time::timeout, "Closed" the
\* RecvError of the receiver, "Remote" the server's Err(String).
\* `call`, `kind` and `arg` say which call returned;
\* `prevok` is the kind of the call that returned Ok last before this one.
NoRet ==
  [call |-> NoCall, kind |-> "none", arg |-> 0, outcome |-> "none", id |-> 0,
   prevok |-> "none"]
Ret(c, outcome, id) ==
  [call |-> c, kind |-> kind[c], arg |-> arg[c], outcome |-> outcome, id |-> id,
   prevok |-> IF last.outcome = "Ok" THEN last.kind ELSE last.prevok]

Init ==
  /\ pc = [c \in Calls |-> "idle"]
  /\ kind = [c \in Calls |-> "none"]
  /\ arg = [c \in Calls |-> 0]
  /\ cb = [k \in Kinds |-> NoCall]
  /\ chan = [c \in Calls |-> EmptyChan]
  /\ last = NoRet
  /\ room = NoRoom
  /\ inb = <<>>
  /\ dispatcher = "running"
  /\ npush = 0
  /\ hb = "sleep"
  /\ ping = "idle"
  /\ ping_notify = Notify(FALSE, <<>>, {})
  /\ ping_fail_count = 0
  /\ delay = <<>>
  /\ missed = 0
  /\ ponged = {}
  /\ queue = [q \in Queues |-> <<>>]
  /\ arrived = [q \in Queues |-> 0]
  /\ taken = [q \in Queues |-> <<>>]

\* blocking_room_id, blocking_room_state, blocking_is_host,
\* blocking_is_ready: room.as_ref().map(|it| it.field).
blocking_room_id == IF room = NoRoom THEN <<>> ELSE <<room[1].id>>
blocking_room_state == IF room = NoRoom THEN <<>> ELSE <<room[1].state>>
blocking_is_host == IF room = NoRoom THEN <<>> ELSE <<room[1].is_host>>
blocking_is_ready == IF room = NoRoom THEN <<>> ELSE <<room[1].is_ready>>

\* Calls start in the order of their numbers (the numbers are only names).
CanStart(c) ==
  /\ pc[c] = "idle"
  /\ IF c = 1 THEN TRUE ELSE pc[c - 1] # "idle"

\* The calls between their send and their return.
InFlight == {c \in Calls : pc[c] \in {"sent", "wait"}}

\* The server sends an event of variant t, answering call c (NoCall: a push).
Sent(t, c) == Append(inb, Wire(t, c))

\* ------------------------------------------------------------ Client::rcall

\* A faulty variant, which C6 must reject: the sender installed before the send.
CbInstalledBeforeSend(c, k) == [cb EXCEPT ![k] = c]

\* The correlation table after a send that failed: `?` returns before the
\* channel is made, so the cell of kind k is untouched.
CbAfterSendError(c, k) == cb

\* `*cb.lock().await = Some(tx)`: the cell of c's kind holds c's sender.
CbAfterInstall(c) == [cb EXCEPT ![kind[c]] = c]

\* A faulty variant, which C4 must reject: the replaced sender is kept alive
\* (leaked), so the channel of the call it belongs to stays open.
ChanAfterInstallLeaks(c) == chan

\* The assignment drops the Option<Sender> the cell held.  A oneshot sender
\* dropped unsent closes its channel: a receiver still awaited resolves to
\* Err(RecvError) at once.
ChanAfterInstall(c) ==
  LET old == cb[kind[c]] IN
  IF old # NoCall /\ pc[old] = "wait" /\ chan[old].st = "empty"
    THEN [chan EXCEPT ![old] = ClosedChan]
    ELSE chan

\* The table after a timeout: time::timeout drops the receiver and nothing
\* touches the cell.
CbAfterTimeout(c) == cb

\* The calls whose argument is converted with try_into()? before rcall.
FallibleArgs == {"Authorize", "Chat"}

\* authorize, chat: `token.into().try_into()?` (message.try_into()?) fails
\* and the call returns that error; rcall is not reached.
CallArgError(c, k) ==
  /\ CanStart(c)
  /\ k \in FallibleArgs
  /\ pc' = [pc EXCEPT ![c] = "done"]
  /\ last' = [Ret(c, "Invalid", 0) EXCEPT !.kind = k]
  /\ UNCHANGED <<heartbeat, telemetry, kind, arg, cb, chan, room, inb, dispatcher, npush>>

\* rcall line 1, `self.stream.send(payload).await?`, failing: the call
\* returns the send error.
CallSendError(c, k, a) ==
  /\ CanStart(c)
  /\ pc' = [pc EXCEPT ![c] = "done"]
  /\ last' = [Ret(c, "Transport", 0) EXCEPT !.kind = k, !.arg = a]
  /\ cb' = CbAfterSendError(c, k)
  /\ UNCHANGED <<heartbeat, telemetry, kind, arg, chan, room, inb, dispatcher, npush>>

\* rcall line 1 succeeding: the command is on the wire.  The server answers
\* it (its answers follow the order of the commands), or never does.
CallSend(c, k, a, answered) ==
  /\ CanStart(c)
  /\ pc' = [pc EXCEPT ![c] = "sent"]
  /\ kind' = [kind EXCEPT ![c] = k]
  /\ arg' = [arg EXCEPT ![c] = a]
  /\ inb' = IF answered THEN Sent(k, c) ELSE inb
  /\ UNCHANGED <<heartbeat, telemetry, cb, chan, last, room, dispatcher, npush>>

\* rcall lines 2-3: make the channel, put its sender in the cell, start to
\* wait on the receiver.
Install(c) ==
  /\ pc[c] = "sent"
  /\ pc' = [pc EXCEPT ![c] = "wait"]
  /\ cb' = CbAfterInstall(c)
  /\ chan' = ChanAfterInstall(c)
  /\ UNCHANGED <<heartbeat, telemetry, kind, arg, last, room, inb, dispatcher, npush>>

\* time::timeout(TIMEOUT, rx) elapses: timeout polls rx first, so this
\* happens only while the channel is empty and open.
Timeout(c) ==
  /\ pc[c] = "wait"
  /\ chan[c].st = "empty"
  /\ pc' = [pc EXCEPT ![c] = "done"]
  /\ last' = Ret(c, "Timeout", 0)
  /\ kind' = [kind EXCEPT ![c] = "none"]
  /\ arg' = [arg EXCEPT ![c] = 0]
  /\ cb' = CbAfterTimeout(c)
  /\ UNCHANGED <<heartbeat, telemetry, chan, room, inb, dispatcher, npush>>

\* rx resolves to Err(RecvError): the second `?` of rcall returns it.
RecvClosed(c) ==
  /\ pc[c] = "wait"
  /\ chan[c].st = "closed"
  /\ pc' = [pc EXCEPT ![c] = "done"]
  /\ last' = Ret(c, "Closed", 0)
  /\ kind' = [kind EXCEPT ![c] = "none"]
  /\ arg' = [arg EXCEPT ![c] = 0]
  /\ chan' = [chan EXCEPT ![c] = EmptyChan]
  /\ UNCHANGED <<heartbeat, telemetry, cb, room, inb, dispatcher, npush>>

\* rx resolves to Ok(Err(msg)): map_err(Error::msg).
RecvErr(c) ==
  /\ pc[c] = "wait"
  /\ chan[c].st = "value"
  /\ ~chan[c].ev.ok
  /\ pc' = [pc EXCEPT ![c] = "done"]
  /\ last' = Ret(c, "Remote", 0)
  /\ kind' = [kind EXCEPT ![c] = "none"]
  /\ arg' = [arg EXCEPT ![c] = 0]
  /\ chan' = [chan EXCEPT ![c] = EmptyChan]
  /\ UNCHANGED <<heartbeat, telemetry, cb, room, inb, dispatcher, npush>>

\* ------------------------------------------- the typed calls, on Ok(payload)

\* authorize: *room = the Option<ClientRoomState> of the result.
AuthorizeRoom(ev) == ev.room

\* A faulty variant, which C7 must reject: the creator is not made host.
CreateRoomAsGuest(id) == <<ClientRoomState(id, DefaultPhase, FALSE, FALSE)>>

\* create_room: Some(ClientRoomState { id, state: default, is_host: true,
\* is_ready: false }).
CreateRoomRoom(id) == <<ClientRoomState(id, DefaultPhase, TRUE, FALSE)>>

\* A faulty variant, which C8 must reject: the phase of the result is dropped.
JoinRoomDefaultPhase(id, state) == <<ClientRoomState(id, DefaultPhase, FALSE, FALSE)>>

\* join_room(id): Some(ClientRoomState { id, state, is_host: false,
\* is_ready: false }).
JoinRoomRoom(id, state) == <<ClientRoomState(id, state, FALSE, FALSE)>>

\* A faulty variant, which C10 must reject: the snapshot is kept.
LeaveRoomKeeps == room

\* leave_room: *room = None.
LeaveRoomRoom == NoRoom

\* request_start, ready: room.as_mut().unwrap().is_ready = true.
ReadyRoom(r) == <<[r[1] EXCEPT !.is_ready = TRUE]>>

\* A faulty variant, which C9 must reject: cancel_ready copies ready's assignment.
CancelReadySetsReady(r) == <<[r[1] EXCEPT !.is_ready = TRUE]>>

\* cancel_ready: room.as_mut().unwrap().is_ready = false.
CancelReadyRoom(r) == <<[r[1] EXCEPT !.is_ready = FALSE]>>

\* The calls that unwrap the snapshot.
Unwraps(k) == k \in {"RequestStart", "Ready", "CancelReady"}

\* A faulty variant, which C16 must reject: chat forgets the room.
RoomAfterOkChatClears(c, ev) ==
  CASE kind[c] = "Authorize" -> AuthorizeRoom(ev)
    [] kind[c] = "CreateRoom" -> CreateRoomRoom(ev.id)
    [] kind[c] = "JoinRoom" -> JoinRoomRoom(arg[c], ev.state)
    [] kind[c] \in {"LeaveRoom", "Chat"} -> LeaveRoomRoom
    [] kind[c] \in {"RequestStart", "Ready"} -> ReadyRoom(room)
    [] kind[c] = "CancelReady" -> CancelReadyRoom(room)
    [] OTHER -> room

\* The snapshot after call c got Ok(ev) from rcall.
RoomAfterOk(c, ev) ==
  CASE kind[c] = "Authorize" -> AuthorizeRoom(ev)
    [] kind[c] = "CreateRoom" -> CreateRoomRoom(ev.id)
    [] kind[c] = "JoinRoom" -> JoinRoomRoom(arg[c], ev.state)
    [] kind[c] = "LeaveRoom" -> LeaveRoomRoom
    [] kind[c] \in {"RequestStart", "Ready"} -> ReadyRoom(room)
    [] kind[c] = "CancelReady" -> CancelReadyRoom(room)
    [] OTHER -> room

\* rx resolves to Ok(Ok(payload)): the typed call writes the snapshot and
\* returns Ok (create_room returns the id).
RecvOk(c) ==
  /\ pc[c] = "wait"
  /\ chan[c].st = "value"
  /\ chan[c].ev.ok
  /\ ~(Unwraps(kind[c]) /\ room = NoRoom)
  /\ pc' = [pc EXCEPT ![c] = "done"]
  /\ room' = RoomAfterOk(c, chan[c].ev)
  /\ last' = Ret(c, "Ok", chan[c].ev.id)
  /\ kind' = [kind EXCEPT ![c] = "none"]
  /\ arg' = [arg EXCEPT ![c] = 0]
  /\ chan' = [chan EXCEPT ![c] = EmptyChan]
  /\ UNCHANGED <<heartbeat, telemetry, cb, inb, dispatcher, npush>>

\* The same for request_start, ready and cancel_ready while the snapshot is
\* None: as_mut().unwrap() panics in the caller's task, nothing is returned.
RecvOkPanic(c) ==
  /\ pc[c] = "wait"
  /\ chan[c].st = "value"
  /\ chan[c].ev.ok
  /\ Unwraps(kind[c]) /\ room = NoRoom
  /\ pc' = [pc EXCEPT ![c] = "panicked"]
  /\ kind' = [kind EXCEPT ![c] = "none"]
  /\ arg' = [arg EXCEPT ![c] = 0]
  /\ chan' = [chan EXCEPT ![c] = EmptyChan]
  /\ UNCHANGED <<heartbeat, telemetry, cb, last, room, inb, dispatcher, npush>>

\* ------------------------------------------------------- process (dispatcher)

\* A faulty variant, which C1 must reject: the sender is read and left in
\* the cell.
CbAfterTakeKeeps(k) == cb

\* process::cb, `cb.lock().await.take()`: the cell of kind k is left None.
CbAfterTake(k) == [cb EXCEPT ![k] = NoCall]

\* The calls a result event of kind k fulfills: the one whose sender the cell
\* holds, if its receiver is still awaited (`let _ = tx.send(res)` ignores
\* the error of a receiver dropped by a timeout).
Fulfilled(k) ==
  {c \in Calls : cb[k] = c /\ pc[c] = "wait" /\ chan[c].st = "empty"}

\* The channels after process::cb sent ev, read from wire entry w.
ChanAfterSend(ev, w) ==
  [c \in Calls |-> IF c \in Fulfilled(ev.type) THEN ValueChan(ev, w) ELSE chan[c]]

\* The dispatcher after `take().unwrap()` met an empty cell: the panic
\* unwinds the task that runs process for every inbound command.
DispatcherAfterEmptyCell == "panicked"

\* ServerCommand::ChangeState(room): room.as_mut().unwrap().state = room.
ChangeStateRoom(r, p) == <<[r[1] EXCEPT !.state = p]>>

\* ServerCommand::ChangeHost(me_is_host): ....unwrap().is_host = me_is_host.
ChangeHostRoom(r, h) == <<[r[1] EXCEPT !.is_host = h]>>

Running == dispatcher = "running" /\ inb # <<>>

\* A result event whose cell holds a sender.
ProcessResult(ev) ==
  /\ Running
  /\ Head(inb).type = ev.type
  /\ cb[ev.type] # NoCall
  /\ cb' = CbAfterTake(ev.type)
  /\ chan' = ChanAfterSend(ev, Head(inb))
  /\ inb' = Tail(inb)
  /\ UNCHANGED <<heartbeat, telemetry, pc, kind, arg, last, room, dispatcher, npush>>

\* A result event whose cell is None: unwrap() panics.
ProcessResultPanic ==
  /\ Running
  /\ Head(inb).type \in Kinds
  /\ cb[Head(inb).type] = NoCall
  /\ dispatcher' = DispatcherAfterEmptyCell
  /\ inb' = Tail(inb)
  /\ UNCHANGED <<heartbeat, telemetry, pc, kind, arg, cb, chan, last, room, npush>>

ProcessChangeState(ev) ==
  /\ Running
  /\ Head(inb).type = "ChangeState"
  /\ room # NoRoom
  /\ room' = ChangeStateRoom(room, ev.state)
  /\ inb' = Tail(inb)
  /\ UNCHANGED <<heartbeat, telemetry, pc, kind, arg, cb, chan, last, dispatcher, npush>>

ProcessChangeHost(ev) ==
  /\ Running
  /\ Head(inb).type = "ChangeHost"
  /\ room # NoRoom
  /\ room' = ChangeHostRoom(room, ev.host)
  /\ inb' = Tail(inb)
  /\ UNCHANGED <<heartbeat, telemetry, pc, kind, arg, cb, chan, last, dispatcher, npush>>

\* ChangeState or ChangeHost while the snapshot is None: unwrap() panics.
ProcessPushPanic ==
  /\ Running
  /\ Head(inb).type \in PushTypes
  /\ room = NoRoom
  /\ dispatcher' = "panicked"
  /\ inb' = Tail(inb)
  /\ UNCHANGED <<heartbeat, telemetry, pc, kind, arg, cb, chan, last, room, npush>>

\* ------------------------------------------------------------------ server

\* The server pushes ChangeState or ChangeHost.
ServerPush(t) ==
  /\ npush < MaxPush
  /\ inb' = Sent(t, NoCall)
  /\ npush' = npush + 1
  /\ UNCHANGED <<heartbeat, telemetry, pc, kind, arg, cb, chan, last, room, dispatcher>>

\* The server sends a result event that answers no command of this client.
ServerUnsolicited(k) ==
  /\ npush < MaxPush
  /\ inb' = Sent(k, NoCall)
  /\ npush' = npush + 1
  /\ UNCHANGED <<heartbeat, telemetry, pc, kind, arg, cb, chan, last, room, dispatcher>>

\* The steps of the calls in flight, of the dispatcher and of the server.
Run ==
  \/ \E c \in Calls : Install(c)
  \/ \E c \in Calls : Timeout(c)
  \/ \E c \in Calls : RecvErr(c)
  \/ \E c \in Calls : RecvOk(c)
  \/ \E c \in Calls : RecvOkPanic(c)
  \/ \E k \in Kinds : \E ev \in Replies(k) : ProcessResult(ev)
  \/ ProcessResultPanic
  \/ \E ev \in Pushes("ChangeState") : ProcessChangeState(ev)
  \/ \E ev \in Pushes("ChangeHost") : ProcessChangeHost(ev)
  \/ ProcessPushPanic
  \/ \E t \in PushTypes : ServerPush(t)

\* Callers on any number of threads: ConcCalls calls, started at any time.
Next ==
  \/ \E c \in 1..ConcCalls, k \in FallibleArgs : CallArgError(c, k)
  \/ \E c \in 1..ConcCalls, k \in Kinds : \E a \in CallArgs(k) :
       CallSendError(c, k, a)
  \/ \E c \in 1..ConcCalls, k \in Kinds : \E a \in CallArgs(k) :
       \E answered \in BOOLEAN : CallSend(c, k, a, answered)
  \/ \E c \in Calls : RecvClosed(c)
  \/ \E k \in Kinds : ServerUnsolicited(k)
  \/ Run

Spec == Init /\ [][Next]_vars

\* One caller thread: NCalls calls, each started after the one before it has
\* returned (no cell is ever overwritten while its receiver waits, so no
\* channel closes), and a server that sends no unsolicited result.
SerialNext ==
  \/ \E c \in Calls, k \in FallibleArgs : InFlight = {} /\ CallArgError(c, k)
  \/ \E c \in Calls, k \in Kinds : \E a \in CallArgs(k) :
       InFlight = {} /\ CallSendError(c, k, a)
  \/ \E c \in Calls, k \in Kinds : \E a \in CallArgs(k) :
       \E answered \in BOOLEAN : InFlight = {} /\ CallSend(c, k, a, answered)
  \/ Run

SerialSpec == Init /\ [][SerialNext]_vars

\* ------------------------------------------- the heartbeat task, Client::ping

\* AtomicU8: the failure counter counts modulo 2^8.
U8 == 256

\* Durations, in ticks.  start.elapsed() of a probe whose wait timed out is
\* HEARTBEAT_TIMEOUT; of one that was acknowledged, or whose send failed,
\* anything less.
HEARTBEAT_TIMEOUT == 2
Elapsed == 0..(HEARTBEAT_TIMEOUT - 1)

\* Bounds: the heartbeat rounds that time out in a row, the Pongs on the wire.
MaxMissed == 257
MaxPong == 2

\* Notify::notify_one: wake the oldest waiter, or store the permit when
\* nothing waits (a permit already stored stays one permit).
NotifyOne(n) ==
  IF n.waiters # <<>>
    THEN Notify(n.permit, Tail(n.waiters), n.woken \cup {Head(n.waiters)})
    ELSE Notify(TRUE, n.waiters, n.woken)

\* The first poll of notified() with a permit stored: it takes the permit.
NotifyTakePermit(n) == Notify(FALSE, n.waiters, n.woken)

\* The first poll of notified() without a permit: p joins the waiters.
NotifyEnqueue(n, p) == Notify(n.permit, Append(n.waiters, p), n.woken)

\* A woken future completes.
NotifyComplete(n, p) == Notify(n.permit, n.waiters, n.woken \ {p})

\* time::timeout drops a future that waits: it leaves the waiters.
NotifyDrop(n, p) ==
  Notify(n.permit, SelectSeq(n.waiters, LAMBDA w : w # p), n.woken)

\* `ping_fail_count.fetch_add(1, Ordering::Relaxed)`: fetch_add wraps.
FetchAdd(n) == (n + 1) % U8

\* The probes whose Ping is sent and whose wait is not over.
Probing ==
  {p \in Probes : (p = "hb" /\ hb \in {"sent", "wait"})
                  \/ (p = "ping" /\ ping \in {"sent", "wait"})}

\* The server answers a Ping with a Pong, or never does.
PongSent(answered) == IF answered THEN Sent("Pong", NoCall) ELSE inb
CanAnswer(answered) == answered => Len(inb) < MaxPong

\* Heartbeat: after the sleep, `stream.send(ClientCommand::Ping)` fails; the
\* round is logged, the elapsed time is recorded and the loop goes on.
HbSendError(d) ==
  /\ hb = "sleep"
  /\ delay' = <<d>>
  /\ UNCHANGED <<rpc, telemetry, inb, dispatcher, npush, hb, ping, ping_notify,
                 ping_fail_count, missed, ponged>>

\* Heartbeat: the Ping is sent.
HbSend(answered) ==
  /\ hb = "sleep"
  /\ CanAnswer(answered)
  /\ hb' = "sent"
  /\ inb' = PongSent(answered)
  /\ ponged' = ponged \ {"hb"}
  /\ UNCHANGED <<rpc, telemetry, dispatcher, npush, ping, ping_notify,
                 ping_fail_count, delay, missed>>

\* Heartbeat: timeout polls notified(), which finds a permit: the round is
\* acknowledged at once, the counter is stored 0 and the delay recorded.
HbPollPermit(d) ==
  /\ hb = "sent"
  /\ ping_notify.permit
  /\ hb' = "sleep"
  /\ ping_notify' = NotifyTakePermit(ping_notify)
  /\ ping_fail_count' = 0
  /\ missed' = 0
  /\ delay' = <<d>>
  /\ UNCHANGED <<rpc, telemetry, inb, dispatcher, npush, ping, ponged>>

\* Heartbeat: timeout polls notified(), no permit: the task waits.
HbPollWait ==
  /\ hb = "sent"
  /\ ~ping_notify.permit
  /\ hb' = "wait"
  /\ ping_notify' = NotifyEnqueue(ping_notify, "hb")
  /\ UNCHANGED <<rpc, telemetry, inb, dispatcher, npush, ping, ping_fail_count,
                 delay, missed, ponged>>

\* Heartbeat: woken by notify_one: `ping_fail_count.store(0)`, then the
\* delay is recorded.
HbAck(d) ==
  /\ hb = "wait"
  /\ "hb" \in ping_notify.woken
  /\ hb' = "sleep"
  /\ ping_notify' = NotifyComplete(ping_notify, "hb")
  /\ ping_fail_count' = 0
  /\ missed' = 0
  /\ delay' = <<d>>
  /\ UNCHANGED <<rpc, telemetry, inb, dispatcher, npush, ping, ponged>>

\* Heartbeat: HEARTBEAT_TIMEOUT elapses while the task waits:
\* `ping_fail_count.fetch_add(1)`, then the delay is recorded all the same.
HbTimeout ==
  /\ hb = "wait"
  /\ "hb" \notin ping_notify.woken
  /\ missed < MaxMissed
  /\ hb' = "sleep"
  /\ ping_notify' = NotifyDrop(ping_notify, "hb")
  /\ ping_fail_count' = FetchAdd(ping_fail_count)
  /\ missed' = missed + 1
  /\ delay' = <<HEARTBEAT_TIMEOUT>>
  /\ UNCHANGED <<rpc, telemetry, inb, dispatcher, npush, ping, ponged>>

\* Client::ping: `self.stream.send(ClientCommand::Ping).await?` fails.
PingSendError ==
  /\ ping \notin {"sent", "wait"}
  /\ ping' = "Transport"
  /\ UNCHANGED <<rpc, telemetry, inb, dispatcher, npush, hb, ping_notify,
                 ping_fail_count, delay, missed, ponged>>

\* Client::ping: the Ping is sent.
PingSend(answered) ==
  /\ ping \notin {"sent", "wait"}
  /\ CanAnswer(answered)
  /\ ping' = "sent"
  /\ inb' = PongSent(answered)
  /\ ponged' = ponged \ {"ping"}
  /\ UNCHANGED <<rpc, telemetry, dispatcher, npush, hb, ping_notify,
                 ping_fail_count, delay, missed>>

\* Client::ping: notified() finds a permit; the delay is recorded, Ok(delay).
PingPollPermit(d) ==
  /\ ping = "sent"
  /\ ping_notify.permit
  /\ ping' = "Ok"
  /\ ping_notify' = NotifyTakePermit(ping_notify)
  /\ delay' = <<d>>
  /\ UNCHANGED <<rpc, telemetry, inb, dispatcher, npush, hb, ping_fail_count,
                 missed, ponged>>

\* Client::ping: no permit, the caller waits.
PingPollWait ==
  /\ ping = "sent"
  /\ ~ping_notify.permit
  /\ ping' = "wait"
  /\ ping_notify' = NotifyEnqueue(ping_notify, "ping")
  /\ UNCHANGED <<rpc, telemetry, inb, dispatcher, npush, hb, ping_fail_count,
                 delay, missed, ponged>>

\* Client::ping: woken by notify_one; the delay is recorded, Ok(delay).
PingAck(d) ==
  /\ ping = "wait"
  /\ "ping" \in ping_notify.woken
  /\ ping' = "Ok"
  /\ ping_notify' = NotifyComplete(ping_notify, "ping")
  /\ delay' = <<d>>
  /\ UNCHANGED <<rpc, telemetry, inb, dispatcher, npush, hb, ping_fail_count,
                 missed, ponged>>

\* Client::ping: the wait times out, `.context("heartbeat timeout")?`
\* returns the error; neither the delay nor the counter is written.
PingTimeout ==
  /\ ping = "wait"
  /\ "ping" \notin ping_notify.woken
  /\ ping' = "Timeout"
  /\ ping_notify' = NotifyDrop(ping_notify, "ping")
  /\ UNCHANGED <<rpc, telemetry, inb, dispatcher, npush, hb, ping_fail_count,
                 delay, missed, ponged>>

\* process, ServerCommand::Pong: `state.ping_notify.notify_one()`.
ProcessPong ==
  /\ Running
  /\ Head(inb).type = "Pong"
  /\ ping_notify' = NotifyOne(ping_notify)
  /\ ponged' = ponged \cup Probing
  /\ inb' = Tail(inb)
  /\ UNCHANGED <<rpc, telemetry, dispatcher, npush, hb, ping, ping_fail_count,
                 delay, missed>>

\* The heartbeat task, callers of ping and the dispatcher, with a server that
\* sends nothing but Pongs.
HeartbeatNext ==
  \/ \E d \in Elapsed : HbSendError(d)
  \/ \E answered \in BOOLEAN : HbSend(answered)
  \/ \E d \in Elapsed : HbPollPermit(d)
  \/ HbPollWait
  \/ \E d \in Elapsed : HbAck(d)
  \/ HbTimeout
  \/ PingSendError
  \/ \E answered \in BOOLEAN : PingSend(answered)
  \/ \E d \in Elapsed : PingPollPermit(d)
  \/ PingPollWait
  \/ \E d \in Elapsed : PingAck(d)
  \/ PingTimeout
  \/ ProcessPong

HeartbeatSpec == Init /\ [][HeartbeatNext]_vars


\* ------------------------------------------------------ the inbound queues

\* Bounds: the elements one Touches or Judges event carries, the telemetry
\* events the server sends, the drains of the message queue.
MaxBatch == 2
MaxTelemetry == 4
MaxDrains == 3

\* The push events that feed the queues, and the queue each one feeds.
TelemetryTypes == {"Touches", "Judges", "Message"}
QueueOf(t) ==
  CASE t = "Touches" -> "touch_frames"
    [] t = "Judges" -> "judges"
    [] t = "Message" -> "messages"

\* The n elements an event carries for queue q, in the order it carries
\* them.  An element is named by its place in the arrival order of the
\* elements of its queue.
Carried(q, n) == [i \in 1..n |-> arrived[q] + i]

\* A faulty variant, which C14 must reject: the batch is put in front.
ExtendFront(v, elems) == elems \o v

\* VecDeque::extend(frames.iter().cloned()), and Vec::push for one element.
Extend(v, elems) == v \o elems

\* A faulty variant, which C15 must reject: the drain leaves the contents.
DrainRestKeeps(v) == v

\* `drain(..)` leaves the Vec empty; `collect()` returns what it held.
DrainRest(v) == <<>>
DrainCollect(v) == v

\* The server pushes Touches, Judges or Message.
ServerTelemetry(t) ==
  /\ npush < MaxTelemetry
  /\ inb' = Sent(t, NoCall)
  /\ npush' = npush + 1
  /\ UNCHANGED <<rpc, heartbeat, telemetry, dispatcher>>

\* process, Touches { frames } and Judges { judges }: under the lock of the
\* queue, extend it with the n elements carried.
ProcessBatch(t, n) ==
  /\ Running
  /\ Head(inb).type = t
  /\ t \in {"Touches", "Judges"}
  /\ queue' = [queue EXCEPT ![QueueOf(t)] = Extend(@, Carried(QueueOf(t), n))]
  /\ arrived' = [arrived EXCEPT ![QueueOf(t)] = @ + n]
  /\ inb' = Tail(inb)
  /\ UNCHANGED <<rpc, heartbeat, taken, dispatcher, npush>>

\* process, Message(msg): under the lock, push msg.
ProcessMessage ==
  /\ Running
  /\ Head(inb).type = "Message"
  /\ queue' = [queue EXCEPT !["messages"] = Extend(@, Carried("messages", 1))]
  /\ arrived' = [arrived EXCEPT !["messages"] = @ + 1]
  /\ inb' = Tail(inb)
  /\ UNCHANGED <<rpc, heartbeat, taken, dispatcher, npush>>

\* Client::blocking_take_messages, on any thread: lock, drain(..).collect(),
\* unlock.  The guard lives for that one statement and process pushes under
\* the same lock, so the statement is one step.
blocking_take_messages ==
  /\ Len(taken["messages"]) < MaxDrains
  /\ taken' = [taken EXCEPT !["messages"] = Append(@, DrainCollect(queue["messages"]))]
  /\ queue' = [queue EXCEPT !["messages"] = DrainRest(@)]
  /\ UNCHANGED <<rpc, heartbeat, arrived, inb, dispatcher, npush>>

\* The dispatcher, any number of drains and a server that pushes telemetry.
QueueNext ==
  \/ \E t \in TelemetryTypes : ServerTelemetry(t)
  \/ \E t \in TelemetryTypes : \E n \in 0..MaxBatch : ProcessBatch(t, n)
  \/ ProcessMessage
  \/ blocking_take_messages

QueueSpec == Init /\ [][QueueNext]_vars

\* ================================================================== claims

\* Call c returns to its caller in this step.
Returns(c) == pc[c] # "done" /\ pc'[c] = "done" /\ last'.call = c
ReturnsWith(c, outcome) == Returns(c) /\ last'.outcome = outcome

\* The dispatcher reads the first inbound event in this step.
Processes == dispatcher = "running" /\ inb # <<>> /\ inb' = Tail(inb)

\* The calls whose channel receives a result event in this step.
Delivered == {c \in Calls : chan[c].st # "value" /\ chan'[c].st = "value"}

\* C1, as stated: no caller receives a result event that the server sent in
\* answer to another caller's command.  The event a channel holds answers
\* the command of the call that waits on it (or no command at all).
C1_NoWrongCaller ==
  \A c \in Calls : chan[c].st = "value" => chan[c].for \in {c, NoCall}

\* C1, amended: a result event fulfills at most one waiting caller, the one
\* whose sender is in the cell of the event's kind when process reads the
\* event; the event leaves the wire and the sender leaves the cell in that
\* step, so no payload is delivered twice, and a channel that holds an event
\* keeps it until its call returns.  (The caller fulfilled need not be the
\* one whose command the event answers.)
C1_SingleFulfillment ==
  [][/\ Cardinality(Delivered) <= 1
     /\ \A c \in Delivered :
          /\ Processes
          /\ Head(inb).type = kind[c]
          /\ cb[kind[c]] = c
          /\ cb'[kind[c]] = NoCall
          /\ chan'[c].ev.type = kind[c]
          /\ chan'[c].for = Head(inb).for
     /\ \A c \in Calls :
          chan[c].st = "value" => chan'[c] = chan[c] \/ Returns(c) \/ pc'[c] = "panicked"
    ]_vars

\* C1 witness: a waiting call holds the answer to another call's command.
C1_Witness ==
  \E c \in Calls :
    pc[c] = "wait" /\ chan[c].st = "value" /\ chan[c].for \notin {c, NoCall}

\* C2, as stated: when the dispatcher reads the answer to the command of a
\* call that has already returned Timeout, the call stays returned with that
\* outcome, its channel receives nothing, and the dispatcher keeps running.
C2_LateResultHarmless ==
  [][(/\ last.outcome = "Timeout"
      /\ Processes
      /\ Head(inb).for = last.call)
     => /\ dispatcher' = "running"
        /\ last' = last
        /\ pc'[last.call] = "done"
        /\ chan'[last.call] = chan[last.call]
    ]_vars

\* C3, as stated: a result event read while the cell of its kind is None is
\* discarded: the dispatcher keeps running and the snapshot, the cells and
\* the channels are unchanged.
C3_NoSlotDiscarded ==
  [][(/\ Processes
      /\ Head(inb).type \in Kinds
      /\ cb[Head(inb).type] = NoCall)
     => /\ dispatcher' = "running"
        /\ UNCHANGED <<room, cb, chan, last, pc>>
    ]_vars

\* Call c is orphaned: it waits and the cell of its kind holds another
\* call's sender, or none, though no event was sent to c.
Orphaned(c) == pc[c] = "wait" /\ cb[kind[c]] # c /\ chan[c].st # "value"

\* C4, as stated: a caller whose cell entry was replaced by a second call of
\* the same kind before it resolved can only resolve via the call timeout:
\* when it returns, it returns Timeout.
C4_OrphanOnlyTimesOut ==
  [][\A c \in Calls : Orphaned(c) /\ Returns(c) => last'.outcome = "Timeout"]_vars

\* C4, amended: when a second call of the same kind installs its sender
\* while the first still waits, the cell holds the second call's sender and
\* the first call's sender is dropped, which closes the first call's
\* channel; an orphaned call's channel is never empty, so the call cannot
\* time out and is sent no event: it returns the receive error (Closed) and
\* nothing else.  A result event goes only to the call whose sender the cell
\* holds.
C4_OrphanClosed ==
  [][/\ \A c2 \in Calls :
          pc[c2] = "sent" /\ pc'[c2] = "wait" =>
            /\ cb'[kind[c2]] = c2
            /\ \A c1 \in Calls :
                 cb[kind[c2]] = c1 /\ pc[c1] = "wait" => chan'[c1].st = "closed"
     /\ \A c \in Calls :
          pc'[c] = "wait" /\ cb'[kind'[c]] # c => chan'[c].st # "empty"
     /\ \A c \in Calls :
          pc[c] = "wait" /\ chan[c].st = "closed" =>
            \/ pc'[c] = "wait" /\ chan'[c] = chan[c]
            \/ ReturnsWith(c, "Closed")
     /\ \A c \in Delivered : cb[kind[c]] = c
    ]_vars

\* C4 witness: the first call has returned Closed while the second call of
\* the same kind waits with its sender in the cell.
C4_Witness ==
  /\ last.outcome = "Closed"
  /\ \E c2 \in Calls :
       pc[c2] = "wait" /\ kind[c2] = last.kind /\ cb[last.kind] = c2

\* C5, as stated (its case of a success result for Ready, RequestStart or
\* CancelReady while no snapshot is tracked): every call that is started
\* comes to return an outcome to its caller; none ends in a panic.
C5_EveryCallReturns == \A c \in Calls : pc[c] # "panicked"

\* C6: a call returns Transport only from its send, before any wait: in the
\* step that returns it the call was not yet sent, and the correlation table
\* and the channels are unchanged (no sender was installed).
C6_SendErrorNoSlot ==
  [][\A c \in Calls :
       ReturnsWith(c, "Transport") =>
         /\ pc[c] = "idle"
         /\ cb' = cb
         /\ chan' = chan
         /\ inb' = inb
    ]_vars

\* C6 witness: a call has returned Transport while another call of its kind
\* waits with its own sender still in the cell.
C6_Witness ==
  /\ last.outcome = "Transport"
  /\ \E c2 \in Calls :
       c2 # last.call /\ pc[c2] = "wait" /\ kind[c2] = last.kind /\ cb[last.kind] = c2

\* C7: in the step in which create_room returns Ok(v), v is the id the
\* result event carried and the accessors read id = v, phase = default,
\* is_host = true, is_ready = false, whatever the snapshot was before.
C7_CreateRoomSnapshot ==
  [][\A c \in Calls :
       kind[c] = "CreateRoom" /\ ReturnsWith(c, "Ok") =>
         /\ last'.id = chan[c].ev.id
         /\ blocking_room_id' = <<last'.id>>
         /\ blocking_room_state' = <<DefaultPhase>>
         /\ blocking_is_host' = <<TRUE>>
         /\ blocking_is_ready' = <<FALSE>>
    ]_vars

\* C7 witness: create_room has returned Ok after join_room had installed a
\* snapshot, and the accessors read the new room.
C7_Witness ==
  /\ last.kind = "CreateRoom" /\ last.outcome = "Ok" /\ last.prevok = "JoinRoom"
  /\ blocking_room_id = <<last.id>>
  /\ blocking_is_host = <<TRUE>>

\* C8: in the step in which join_room(X) returns Ok, the accessors read
\* id = X, is_host = false, is_ready = false and the phase the JoinRoom
\* result carried, whatever the snapshot was before.
C8_JoinRoomSnapshot ==
  [][\A c \in Calls :
       kind[c] = "JoinRoom" /\ ReturnsWith(c, "Ok") =>
         /\ blocking_room_id' = <<arg[c]>>
         /\ blocking_room_state' = <<chan[c].ev.state>>
         /\ blocking_is_host' = <<FALSE>>
         /\ blocking_is_ready' = <<FALSE>>
    ]_vars

\* C8 witness: join_room(X) has returned Ok after create_room had installed
\* a snapshot of another room, and the accessors read room X in a phase
\* that is not the default.
C8_Witness ==
  /\ last.kind = "JoinRoom" /\ last.outcome = "Ok" /\ last.prevok = "CreateRoom"
  /\ blocking_room_id = <<last.arg>>
  /\ blocking_room_state # <<DefaultPhase>>
  /\ blocking_is_host = <<FALSE>>

\* C9: in the step in which ready returns Ok, is_ready reads true; in the
\* step in which cancel_ready returns Ok, is_ready reads false; and no event
\* the dispatcher reads changes is_ready of a tracked snapshot.
C9_ReadyCancelReady ==
  [][/\ \A c \in Calls :
          kind[c] = "Ready" /\ ReturnsWith(c, "Ok") => blocking_is_ready' = <<TRUE>>
     /\ \A c \in Calls :
          kind[c] = "CancelReady" /\ ReturnsWith(c, "Ok") => blocking_is_ready' = <<FALSE>>
     /\ Processes /\ room # NoRoom /\ room' # NoRoom =>
          blocking_is_ready' = blocking_is_ready
    ]_vars

\* C9 witness: cancel_ready has returned Ok, the call that returned Ok
\* before it was ready, the server has pushed nothing, and is_ready reads
\* false.
C9_Witness ==
  /\ last.kind = "CancelReady" /\ last.outcome = "Ok" /\ last.prevok = "Ready"
  /\ npush = 0
  /\ blocking_is_ready = <<FALSE>>

\* C10: in the step in which leave_room returns Ok all four accessors read
\* absent, and a snapshot that is absent becomes present only in a step in
\* which create_room, join_room or authorize returns Ok.
C10_LeaveRoomClears ==
  [][/\ \A c \in Calls :
          kind[c] = "LeaveRoom" /\ ReturnsWith(c, "Ok") =>
            /\ blocking_room_id' = <<>>
            /\ blocking_room_state' = <<>>
            /\ blocking_is_host' = <<>>
            /\ blocking_is_ready' = <<>>
     /\ room = NoRoom /\ room' # NoRoom =>
          \E c \in Calls :
            /\ kind[c] \in {"CreateRoom", "JoinRoom", "Authorize"}
            /\ ReturnsWith(c, "Ok")
    ]_vars

\* C10 witness: leave_room has returned Ok after create_room had installed a
\* snapshot, and the room id reads absent.
C10_Witness ==
  /\ last.kind = "LeaveRoom" /\ last.outcome = "Ok" /\ last.prevok = "CreateRoom"
  /\ blocking_room_id = <<>>

\* ------------------------------------------------ rpc claims, continued

\* The calls that write the snapshot when they succeed.
Writers ==
  {"Authorize", "CreateRoom", "JoinRoom", "LeaveRoom", "RequestStart",
   "Ready", "CancelReady"}

\* C16: a call that returns leaves the snapshot as it was unless it returns
\* Ok and is one of the seven calls that write it (so every failed call, and
\* chat, select_chart and played when they succeed, leave it unchanged), and
\* apart from a returning call only a ChangeState or ChangeHost event the
\* dispatcher reads changes the snapshot.
C16_SnapshotFrame ==
  [][/\ \A c \in Calls :
          Returns(c) /\ room' # room =>
            last'.outcome = "Ok" /\ last'.kind \in Writers
     /\ room' # room =>
          \/ \E c \in Calls : Returns(c)
          \/ Processes /\ Head(inb).type \in PushTypes
    ]_vars

\* C16 witness: leave_room has returned the server's error after
\* create_room had installed a snapshot, and the snapshot is still there.
C16_Witness ==
  /\ last.kind = "LeaveRoom" /\ last.outcome = "Remote"
  /\ last.prevok = "CreateRoom"
  /\ blocking_is_host = <<TRUE>>

\* C17, as stated: in the step in which a call returns Timeout the cell of
\* its kind is left None.
C17_TimeoutRetiresSlot ==
  [][\A c \in Calls : ReturnsWith(c, "Timeout") => cb'[kind[c]] = NoCall]_vars

\* C18, as stated: when the dispatcher reads the result event that answers
\* the command of a call in flight, the cell of the call's kind holds that
\* call's sender and the event is delivered to the call.
C18_SlotBeforeSend ==
  [][\A c \in Calls :
       (Processes /\ Head(inb).for = c /\ pc[c] \in {"sent", "wait"}) =>
         cb[kind[c]] = c /\ c \in Delivered
    ]_vars

\* C19, as stated: a ChangeState or ChangeHost event the dispatcher reads
\* after the success result of a create_room or join_room that has not yet
\* returned finds a snapshot, and the value it writes is not overwritten by
\* the snapshot the call installs when it returns.
C19_PushAfterResult ==
  [][\A c \in Calls :
       (/\ pc[c] = "wait"
        /\ kind[c] \in {"CreateRoom", "JoinRoom"}
        /\ chan[c].st = "value" /\ chan[c].ev.ok /\ chan[c].for = c
        /\ Processes
        /\ Head(inb).type \in PushTypes) =>
         /\ dispatcher' = "running"
         /\ room' # NoRoom
         /\ Head(inb).type = "ChangeState" =>
              RoomAfterOk(c, chan[c].ev)[1].state = room'[1].state
         /\ Head(inb).type = "ChangeHost" =>
              RoomAfterOk(c, chan[c].ev)[1].is_host = room'[1].is_host
    ]_vars

\* ------------------------------------------------------- heartbeat claims

\* The heartbeat round ends, in this step, with a timeout of its wait.
HbMisses == hb = "wait" /\ hb' = "sleep" /\ missed' = missed + 1

\* The heartbeat round ends, in this step, acknowledged.
HbAcked == hb \in {"sent", "wait"} /\ hb' = "sleep" /\ missed' = 0

\* A call of ping ends, in this step, acknowledged.
PingAcked == ping \in {"sent", "wait"} /\ ping' = "Ok"

\* C11, as stated: after N heartbeat rounds in a row whose Ping was sent and
\* whose wait timed out, ping_fail_count reads N (and 0 after an
\* acknowledged round, which starts the count of rounds again).
C11_CountsMisses == ping_fail_count = missed

\* C12, as stated: the counter saturates: a timeout adds one below the
\* maximum and leaves the maximum where it is, and the counter decreases
\* only in an acknowledged round, to 0.
C12_Saturating ==
  [][/\ HbMisses =>
          ping_fail_count' =
            IF ping_fail_count = U8 - 1 THEN U8 - 1 ELSE ping_fail_count + 1
     /\ ping_fail_count' < ping_fail_count => HbAcked /\ ping_fail_count' = 0
    ]_vars

\* C13, as stated: a heartbeat round that ends in a timeout leaves the
\* recorded delay as it was, and the delay is written only in a step in
\* which a heartbeat round or a call of ping is acknowledged.
C13_TimeoutKeepsDelay ==
  [][/\ HbMisses => delay' = delay
     /\ delay' # delay => HbAcked \/ PingAcked
    ]_vars

\* ---------------------------------------------------------- queue claims

RECURSIVE Flatten(_)
\* The concatenation of the results of the drains, in the order of the drains.
Flatten(ss) == IF ss = <<>> THEN <<>> ELSE Head(ss) \o Flatten(Tail(ss))

\* C14: each queue holds, in arrival order, exactly the elements that
\* arrived since its last drain: what was drained followed by what the queue
\* holds is the sequence of all elements that arrived, each one once.
C14_ArrivalOrder ==
  \A q \in Queues :
    Flatten(taken[q]) \o queue[q] = [i \in 1..arrived[q] |-> i]

\* C14 witness: the touch queue holds the elements of two batches, and the
\* message queue holds a message that arrived after a drain.
C14_Witness ==
  /\ queue["touch_frames"] = <<1, 2, 3>>
  /\ Flatten(taken["messages"]) = <<1>>
  /\ queue["messages"] = <<2>>

\* C15: a drain returns all the message queue held and leaves it empty (so
\* a drain that follows with no push in between returns nothing), only a
\* push and a drain change the queue, and after every step each message that
\* arrived is in exactly one drain's result or still queued, in arrival
\* order.
C15_DrainOnce ==
  [][/\ taken' # taken =>
          /\ taken'["messages"] = Append(taken["messages"], queue["messages"])
          /\ queue'["messages"] = <<>>
     /\ queue'["messages"] # queue["messages"] =>
          \/ taken' # taken
          \/ Processes /\ Head(inb).type = "Message"
     /\ Flatten(taken'["messages"]) \o queue'["messages"]
          = [i \in 1..arrived'["messages"] |-> i]
    ]_vars

\* C15 witness: a drain returned two messages, the drain after it returned
\* nothing, and a third drain returned the message pushed since.
C15_Witness == taken["messages"] = << <<1, 2>>, <<>>, <<3>> >>

\* C20, as stated: a heartbeat round or a call of ping is acknowledged only
\* if the dispatcher has processed a Pong since that probe's Ping was sent (a
\* Pong processed while no probe waits acknowledges no later probe), and one
\* Pong wakes at most one waiting probe.
C20_AckNeedsPong ==
  [][/\ HbAcked => "hb" \in ponged
     /\ PingAcked => "ping" \in ponged
     /\ Cardinality(ping_notify'.woken \ ping_notify.woken) <= 1
    ]_vars

====
